---- MODULE Spec2Model ----
(***************************************************************************)
(* Timer (MMIO) and PIC simulator, src/Timer-PIC/timer_pic.c.              *)
(*                                                                         *)
(* A uint32_t is modelled as the set of its set bit positions, a subset of *)
(* 0..31 (bit 0 is the least significant one): & is intersection, | is     *)
(* union, ~ is the complement in 0..31, a shift that leaves bit 31 drops   *)
(* the bits shifted out.  Addresses, vectors and the 64-bit counters are   *)
(* integers.  The long double accumulators of the latency statistics are   *)
(* exact rationals <<numerator, denominator>> in lowest terms.  A         *)
(* per-vector array of PICDevice is the function of its non-zero entries:  *)
(* an index outside its domain holds the zero the memset of pic_reset      *)
(* left there.                                                             *)
(***************************************************************************)
EXTENDS Integers, Sequences, FiniteSets, Bags, TLC

\* ------------------------------------------------------------- bounds
\* iosub_tick is called at most MaxCycles times after an init_default
MaxCycles == 4
\* at most MaxSamples latency samples are recorded per vector
MaxSamples == 2
\* the latency collector alone is fed at most MaxFed samples, each at most MaxLatency
MaxFed == 5
MaxLatency == 5

\* ------------------------------------------------------ configuration
TIMER_BASE == 268435456
TIMER_SIZE == 256
PIC_BASE == 268439296
PIC_SIZE == 256
TIMER_OFF_CTRL == 0
TIMER_OFF_PERIOD == 4
TIMER_OFF_COUNT == 8
TIMER_OFF_STATUS == 12
PIC_OFF_MASK == 0
PIC_OFF_PENDING == 4
PIC_OFF_EOI == 8
PIC_OFF_PRIORITY == 12
VECTOR_TIMER == 32
\* size of the per-vector arrays of PICDevice
NVECTORS == 64
\* pic_ack serves the vectors below NPICVECTORS
NPICVECTORS == 32
\* the harness of main: PERIOD value, CTRL value and number of cycles
MAIN_PERIOD == 10
MAIN_CTRL == 3
MAIN_CYCLES == 1000

\* ------------------------------------------------- 32-bit words as bit sets
Bits == 0..31
ALL_ONES == Bits

Pow2(n) == 2 ^ n

\* the word of a number below 2^31
Word(n) == {b \in 0..30 : (n \div Pow2(b)) % 2 = 1}

RECURSIVE SumPow2(_)
SumPow2(w) ==
  IF w = {} THEN 0
  ELSE LET b == CHOOSE x \in w : TRUE IN Pow2(b) + SumPow2(w \ {b})

\* the number of a word whose bit 31 is clear
Val(w) == SumPow2(w)

Min(S) == CHOOSE x \in S : \A y \in S : x <= y

And(a, b) == a \cap b
Or(a, b) == a \cup b
Not(a) == Bits \ a
Shl(a, s) == {b + s : b \in a} \cap Bits
Shr(a, s) == {b - s : b \in a} \cap Bits
\* w - 1 for w # 0: the lowest set bit is cleared and the bits below it set
Dec(w) == LET l == Min(w) IN (w \ {l}) \cup (0 .. (l - 1))
\* __builtin_ctz, for w # 0
ctz(w) == Min(w)

BYTE_MASK == 0..7
HALF_MASK == 0..15

\* ------------------------------------------------------------ rationals
Abs(x) == IF x < 0 THEN -x ELSE x

RECURSIVE GCD(_, _)
GCD(a, b) == IF b = 0 THEN a ELSE GCD(b, a % b)

Norm(n, d) ==
  LET g == GCD(Abs(n), Abs(d))
      sgn == IF d < 0 THEN -1 ELSE 1
  IN  IF n = 0 THEN <<0, 1>> ELSE <<sgn * (n \div g), sgn * (d \div g)>>

RInt(n) == <<n, 1>>
RZero == <<0, 1>>
RAdd(a, b) == Norm(a[1] * b[2] + b[1] * a[2], a[2] * b[2])
RSub(a, b) == Norm(a[1] * b[2] - b[1] * a[2], a[2] * b[2])
RMul(a, b) == Norm(a[1] * b[1], a[2] * b[2])
RDivInt(a, n) == Norm(a[1], a[2] * n)

\* ---------------------------------------------------------------- state
VARIABLES
  global_cycles,  \* static uint64_t global_cycles
  timer,          \* static TimerDevice timer
  pic,            \* static PICDevice pic
  last,           \* the last call of the contract: operation, arguments, results
  tick_calls,     \* history: iosub_tick calls since iosub_init_default
  signalled,      \* history: vector -> the tick call of its latest pic_signal_irq
  samples,        \* history: bag of the <<vector, latency>> given to pic_record_latency
  forced,         \* history: the latest write to COUNT, while only ticks followed it
  pc,             \* position of main ("api" when the contract is driven freely)
  i               \* loop counter of main

vars == <<global_cycles, timer, pic, last, tick_calls, signalled, samples, forced,
          pc, i>>

Vectors == 0 .. (NVECTORS - 1)

\* the program state the functions of the source work on; lat is the latency
\* the call handed to pic_record_latency (-1: none)
Cur ==
  [global_cycles |-> global_cycles, timer |-> timer, pic |-> pic,
   tick_calls |-> tick_calls, signalled |-> signalled, samples |-> samples,
   lat |-> -1]

NoSignal == [v \in {} |-> 0]

\* a zeroed array, the entry arr[v], and arr with arr[v] = x
Zeroed == [v \in {} |-> 0]
Get(arr, v, zero) == IF v \in DOMAIN arr THEN arr[v] ELSE zero
Put(arr, v, x, zero) ==
  [u \in IF x = zero THEN (DOMAIN arr) \ {v} ELSE (DOMAIN arr) \cup {v} |->
     IF u = v THEN x ELSE arr[u]]

\* memset(&timer, 0, ...) and the assignments of timer_reset
timer_reset ==
  [enabled |-> 0, irq_enable |-> 0, period |-> {}, count |-> {},
   status |-> {}, events_generated |-> 0]

\* memset(&pic, 0, ...)
pic_reset ==
  [mask_bits |-> {}, pending_bits |-> {},
   last_event_cycle |-> Zeroed, samples_count |-> Zeroed,
   samples_mean |-> Zeroed, samples_m2 |-> Zeroed]

\* pic.last_event_cycle[v], pic.samples_count[v], pic.samples_mean[v], pic.samples_m2[v]
last_event_cycle(s, v) == Get(s.pic.last_event_cycle, v, 0)
samples_count(s, v) == Get(s.pic.samples_count, v, 0)
samples_mean(s, v) == Get(s.pic.samples_mean, v, RZero)
samples_m2(s, v) == Get(s.pic.samples_m2, v, RZero)

\* the state iosub_init_default leaves
iosub_init_default ==
  [global_cycles |-> 0, timer |-> timer_reset, pic |-> pic_reset,
   tick_calls |-> 0, signalled |-> NoSignal, samples |-> EmptyBag, lat |-> -1]

\* ---------------------------------------------------------------- helpers
in_range(addr, base, size) == (addr >= base) /\ (addr < base + size)

\* pic_signal_irq recording the cycle after the current one
pic_signal_irq_next_cycle(s, vector) ==
  IF vector >= NVECTORS THEN s
  ELSE [s EXCEPT
          !.pic.pending_bits = Or(@, Shl({0}, vector % 32)),
          !.pic.last_event_cycle = Put(@, vector, s.global_cycles + 1, 0),
          !.signalled = [v \in (DOMAIN s.signalled) \cup {vector} |->
                           IF v = vector THEN s.tick_calls ELSE s.signalled[v]]]

\* pic_signal_irq keeping the firing cycle of a vector that is still pending
pic_signal_irq_keeps_first(s, vector) ==
  IF vector >= NVECTORS THEN s
  ELSE [s EXCEPT
          !.pic.pending_bits = Or(@, Shl({0}, vector % 32)),
          !.pic.last_event_cycle =
            IF (vector % 32) \in s.pic.pending_bits THEN @
            ELSE Put(@, vector, s.global_cycles, 0),
          !.signalled = [v \in (DOMAIN s.signalled) \cup {vector} |->
                           IF v = vector THEN s.tick_calls ELSE s.signalled[v]]]

pic_signal_irq(s, vector) ==
  IF vector >= NVECTORS THEN s
  ELSE [s EXCEPT
          !.pic.pending_bits = Or(@, Shl({0}, vector % 32)),
          !.pic.last_event_cycle = Put(@, vector, s.global_cycles, 0),
          !.signalled = [v \in (DOMAIN s.signalled) \cup {vector} |->
                           IF v = vector THEN s.tick_calls ELSE s.signalled[v]]]

\* pic_record_latency with delta2 taken from the mean before its update
pic_record_latency_old_mean(s, vector, latency) ==
  IF vector >= NVECTORS THEN s
  ELSE
    LET n == samples_count(s, vector) + 1
        delta == RSub(RInt(latency), samples_mean(s, vector))
        mean == RAdd(samples_mean(s, vector), RDivInt(delta, n))
    IN  [s EXCEPT
           !.pic.samples_count = Put(@, vector, n, 0),
           !.pic.samples_mean = Put(@, vector, mean, RZero),
           !.pic.samples_m2 =
             Put(@, vector, RAdd(samples_m2(s, vector), RMul(delta, delta)), RZero),
           !.samples = @ (+) SetToBag({<<vector, latency>>}),
           !.lat = latency]

pic_record_latency(s, vector, latency) ==
  IF vector >= NVECTORS THEN s
  ELSE
    LET n == samples_count(s, vector) + 1
        delta == RSub(RInt(latency), samples_mean(s, vector))
        mean == RAdd(samples_mean(s, vector), RDivInt(delta, n))
        delta2 == RSub(RInt(latency), mean)
    IN  [s EXCEPT
           !.pic.samples_count = Put(@, vector, n, 0),
           !.pic.samples_mean = Put(@, vector, mean, RZero),
           !.pic.samples_m2 =
             Put(@, vector, RAdd(samples_m2(s, vector), RMul(delta, delta2)), RZero),
           !.samples = @ (+) SetToBag({<<vector, latency>>}),
           !.lat = latency]

\* -------------------------------------------------------------- timer
\* timer_tick firing one tick early, at count <= 1
timer_tick_fires_early(s) ==
  IF s.timer.enabled = 0 THEN s
  ELSE IF s.timer.period = {} THEN s
  ELSE IF s.timer.count \subseteq {0} THEN
    LET fired == [s EXCEPT !.timer.events_generated = @ + 1,
                           !.timer.status = {0}]
        sig == IF fired.timer.irq_enable # 0
               THEN pic_signal_irq(fired, VECTOR_TIMER % 32)
               ELSE fired
    IN  [sig EXCEPT !.timer.count = sig.timer.period]
  ELSE [s EXCEPT !.timer.count = Dec(@)]

\* timer_tick without the period == 0 test
timer_tick_zero_period(s) ==
  IF s.timer.enabled = 0 THEN s
  ELSE IF s.timer.count = {} THEN
    LET fired == [s EXCEPT !.timer.events_generated = @ + 1,
                           !.timer.status = {0}]
        sig == IF fired.timer.irq_enable # 0
               THEN pic_signal_irq(fired, VECTOR_TIMER % 32)
               ELSE fired
    IN  [sig EXCEPT !.timer.count = sig.timer.period]
  ELSE [s EXCEPT !.timer.count = Dec(@)]

\* timer_tick signalling the PIC whatever irq_enable says
timer_tick_always_signals(s) ==
  IF s.timer.enabled = 0 THEN s
  ELSE IF s.timer.period = {} THEN s
  ELSE IF s.timer.count = {} THEN
    LET fired == [s EXCEPT !.timer.events_generated = @ + 1,
                           !.timer.status = {0}]
        sig == pic_signal_irq(fired, VECTOR_TIMER % 32)
    IN  [sig EXCEPT !.timer.count = sig.timer.period]
  ELSE [s EXCEPT !.timer.count = Dec(@)]

timer_tick(s) ==
  IF s.timer.enabled = 0 THEN s
  ELSE IF s.timer.period = {} THEN s
  ELSE IF s.timer.count = {} THEN
    LET fired == [s EXCEPT !.timer.events_generated = @ + 1,
                           !.timer.status = {0}]
        sig == IF fired.timer.irq_enable # 0
               THEN pic_signal_irq(fired, VECTOR_TIMER % 32)
               ELSE fired
    IN  [sig EXCEPT !.timer.count = sig.timer.period]
  ELSE [s EXCEPT !.timer.count = Dec(@)]

\* ---------------------------------------------------------------- PIC
\* pic_get_pending_vector without the mask
pic_get_pending_vector_unmasked(s) ==
  IF s.pic.pending_bits = {} THEN -1 ELSE ctz(s.pic.pending_bits)

\* pic_get_pending_vector scanning from the most significant bit
pic_get_pending_vector_msb(s) ==
  LET pending == And(s.pic.pending_bits, Not(s.pic.mask_bits))
  IN  IF pending = {} THEN -1 ELSE CHOOSE x \in pending : \A y \in pending : y <= x

pic_get_pending_vector(s) ==
  LET pending == And(s.pic.pending_bits, Not(s.pic.mask_bits))
  IN  IF pending = {} THEN -1 ELSE ctz(pending)

\* pic_ack without the test of the "never fired" sentinel
\* pic_ack also clearing the fired flag of the timer
pic_ack_clears_status(s, vector) ==
  IF vector >= NPICVECTORS THEN s
  ELSE
    LET event_cycle == last_event_cycle(s, vector)
        rec == IF event_cycle # 0
               THEN pic_record_latency(s, vector, s.global_cycles - event_cycle)
               ELSE s
    IN  [rec EXCEPT !.pic.pending_bits = And(@, Not(Shl({0}, vector))),
                    !.timer.status = And(@, Not({0}))]

pic_ack_no_sentinel(s, vector) ==
  IF vector >= NPICVECTORS THEN s
  ELSE
    LET rec == pic_record_latency(s, vector,
                                  s.global_cycles - last_event_cycle(s, vector))
    IN  [rec EXCEPT !.pic.pending_bits = And(@, Not(Shl({0}, vector)))]

pic_ack(s, vector) ==
  IF vector >= NPICVECTORS THEN s
  ELSE
    LET event_cycle == last_event_cycle(s, vector)
        rec == IF event_cycle # 0
               THEN pic_record_latency(s, vector, s.global_cycles - event_cycle)
               ELSE s
    IN  [rec EXCEPT !.pic.pending_bits = And(@, Not(Shl({0}, vector)))]

\* ---------------------------------------------------------------- MMIO
\* off = addr - TIMER_BASE with the low bits only: the window mirrored every 16 bytes
timer_offset_mirrored(addr) == (addr - TIMER_BASE) % 16

\* uint32_t off = addr - TIMER_BASE
timer_offset(addr) == addr - TIMER_BASE

\* uint32_t off = addr - PIC_BASE
pic_offset(addr) == addr - PIC_BASE

\* the CTRL read-back without the shift of irq_enable
timer_ctrl_value_noshift(s) ==
  Or(And(Word(s.timer.enabled), {0}), And(Word(s.timer.irq_enable), {0}))

\* (timer.enabled & 1u) | ((timer.irq_enable & 1u) << 1)
timer_ctrl_value(s) ==
  Or(And(Word(s.timer.enabled), {0}), Shl(And(Word(s.timer.irq_enable), {0}), 1))

mmio_read32(s, addr) ==
  IF in_range(addr, TIMER_BASE, TIMER_SIZE) THEN
    LET off == timer_offset(addr) IN
    CASE off = TIMER_OFF_CTRL -> timer_ctrl_value(s)
      [] off = TIMER_OFF_PERIOD -> s.timer.period
      [] off = TIMER_OFF_COUNT -> s.timer.count
      [] off = TIMER_OFF_STATUS -> s.timer.status
      [] OTHER -> {}
  ELSE IF in_range(addr, PIC_BASE, PIC_SIZE) THEN
    LET off == pic_offset(addr) IN
    CASE off = PIC_OFF_MASK -> s.pic.mask_bits
      [] off = PIC_OFF_PENDING -> s.pic.pending_bits
      [] off = PIC_OFF_EOI -> {}
      [] OTHER -> {}
  ELSE {}

\* the PENDING write as a value assignment
\* the PENDING case setting the written bits
pic_pending_write_sets(s, val) == [s EXCEPT !.pic.pending_bits = Or(@, val)]

pic_pending_write_assign(s, val) == [s EXCEPT !.pic.pending_bits = val]

\* case PIC_OFF_PENDING: pic.pending_bits &= ~val
pic_pending_write(s, val) == [s EXCEPT !.pic.pending_bits = And(@, Not(val))]

mmio_write32(s, addr, val) ==
  IF in_range(addr, TIMER_BASE, TIMER_SIZE) THEN
    LET off == timer_offset(addr) IN
    CASE off = TIMER_OFF_CTRL ->
           [s EXCEPT !.timer.enabled = Val(And(val, {0})),
                     !.timer.irq_enable = Val(And(Shr(val, 1), {0}))]
      [] off = TIMER_OFF_PERIOD -> [s EXCEPT !.timer.period = val]
      [] off = TIMER_OFF_COUNT -> [s EXCEPT !.timer.count = val]
      [] off = TIMER_OFF_STATUS -> [s EXCEPT !.timer.status = And(val, BYTE_MASK)]
      [] OTHER -> s
  ELSE IF in_range(addr, PIC_BASE, PIC_SIZE) THEN
    LET off == pic_offset(addr) IN
    CASE off = PIC_OFF_MASK -> [s EXCEPT !.pic.mask_bits = val]
      [] off = PIC_OFF_PENDING -> pic_pending_write(s, val)
      [] off = PIC_OFF_EOI -> pic_ack(s, Val(And(val, BYTE_MASK)))
      [] OTHER -> s
  ELSE s

\* ------------------------------------------------------------- contract
\* iosub_tick with the clock advanced after the timer logic
iosub_tick_clock_last(s) ==
  LET t == timer_tick(s) IN [t EXCEPT !.global_cycles = @ + 1]

iosub_tick(s) == timer_tick([s EXCEPT !.global_cycles = @ + 1])

iosub_irq_pending(s) == pic_get_pending_vector(s)

\* the state it leaves and the value it returns
iosub_ack_irq(s, vector) ==
  IF vector < 0 THEN [s |-> s, ret |-> 0]
  ELSE [s |-> pic_ack(s, vector), ret |-> 1]

\* addr & ~3u, (addr & 3u) * 8u, (addr & 2u) * 8u
AlignedBase(addr) == addr - (addr % 4)
ByteShift(addr) == (addr % 4) * 8
HalfShift(addr) == ((addr \div 2) % 2) * 16

iosub_read8(s, addr) ==
  LET word == mmio_read32(s, AlignedBase(addr))
  IN  And(Shr(word, ByteShift(addr)), BYTE_MASK)

iosub_read16(s, addr) ==
  LET word == mmio_read32(s, AlignedBase(addr))
  IN  And(Shr(word, HalfShift(addr)), HALF_MASK)

iosub_read32(s, addr) == mmio_read32(s, addr)

iosub_write8(s, addr, val) ==
  LET base == AlignedBase(addr)
      word == mmio_read32(s, base)
      mask == Shl(BYTE_MASK, ByteShift(addr))
      neww == Or(And(word, Not(mask)), Shl(And(val, BYTE_MASK), ByteShift(addr)))
  IN  mmio_write32(s, base, neww)

iosub_write16(s, addr, val) ==
  LET base == AlignedBase(addr)
      word == mmio_read32(s, base)
      mask == Shl(HALF_MASK, HalfShift(addr))
      neww == Or(And(word, Not(mask)), Shl(And(val, HALF_MASK), HalfShift(addr)))
  IN  mmio_write32(s, base, neww)

iosub_write32(s, addr, val) == mmio_write32(s, addr, val)

\* <<count, mean, variance>>
iosub_get_irq_stats(s, vector) ==
  IF vector >= NVECTORS THEN <<0, RZero, RZero>>
  ELSE <<samples_count(s, vector),
         samples_mean(s, vector),
         IF samples_count(s, vector) > 1
         THEN RDivInt(samples_m2(s, vector), samples_count(s, vector) - 1)
         ELSE RZero>>

iosub_get_global_cycles(s) == s.global_cycles

\* ------------------------------------------------- inputs of the driver
TIMER_CTRL == TIMER_BASE + TIMER_OFF_CTRL
TIMER_PERIOD == TIMER_BASE + TIMER_OFF_PERIOD
TIMER_COUNT == TIMER_BASE + TIMER_OFF_COUNT
TIMER_STATUS == TIMER_BASE + TIMER_OFF_STATUS
PIC_MASK == PIC_BASE + PIC_OFF_MASK
PIC_PENDING == PIC_BASE + PIC_OFF_PENDING
PIC_EOI == PIC_BASE + PIC_OFF_EOI
PIC_PRIORITY == PIC_BASE + PIC_OFF_PRIORITY

\* the implemented registers
Registers ==
  {TIMER_CTRL, TIMER_PERIOD, TIMER_COUNT, TIMER_STATUS, PIC_MASK, PIC_PENDING, PIC_EOI}

\* addresses that decode to no register: below, between and above the two
\* windows, and unknown or reserved offsets inside them
NoRegister ==
  {0, TIMER_BASE - 1, TIMER_BASE + 16, TIMER_BASE + TIMER_SIZE,
   PIC_PRIORITY, PIC_BASE + PIC_SIZE}

\* a 32-bit access decodes its address as it is, a narrower one the word around it
Decodes(addr, width) ==
  IF width = 32 THEN addr \in Registers ELSE AlignedBase(addr) \in Registers

\* The interrupt path: the driver programs the timer and the PIC with word
\* writes, ticks, polls and acknowledges.  <<address, value>> pairs.
IrqWrites ==
  ({TIMER_CTRL} \X {{}, {0}, {0, 1}})
  \cup ({TIMER_PERIOD} \X {{0}, {1}})
  \cup ({PIC_MASK} \X {{}, {0}})
  \cup ({PIC_PENDING} \X {{0}, {5}})
  \cup ({PIC_EOI} \X {{}, {0, 8}})
IrqVectors == {-1, 0, 5, 32}

\* The register bus: accesses of the three widths to the registers, to their
\* byte lanes and to addresses that decode to no register.
BusWrites32 ==
  ({TIMER_CTRL} \X {{0}, ALL_ONES})
  \cup ({TIMER_PERIOD} \X {{0, 31}})
  \cup ({TIMER_COUNT} \X {{31}})
  \cup ({TIMER_STATUS} \X {ALL_ONES})
  \cup ({PIC_MASK} \X {ALL_ONES})
  \cup ({PIC_PENDING} \X {{5}})
  \cup ((NoRegister \cup {TIMER_PERIOD + 1}) \X {ALL_ONES})
BusWrites8 ==
  {PIC_PENDING, PIC_PENDING + 1, 0, TIMER_BASE + 17, PIC_PRIORITY + 1} \X {{}, {0, 7}}
BusWrites16 ==
  {PIC_PENDING + 2, TIMER_BASE - 1, PIC_PRIORITY + 2} \X {{0, 15}}
BusReads32 == Registers \cup NoRegister \cup {TIMER_PERIOD + 1}
BusReads8 == {TIMER_PERIOD + 3, 0, TIMER_BASE + 17, PIC_PRIORITY + 1}
BusReads16 == {PIC_MASK + 2, TIMER_BASE - 1, PIC_PRIORITY + 2}

\* --------------------------------------------------------------- actions
Bounded(s) ==
  /\ s.global_cycles <= MaxCycles
  /\ \A v \in DOMAIN s.pic.samples_count : s.pic.samples_count[v] <= MaxSamples

\* no write to COUNT, or a call other than iosub_tick came after it
NoForce == <<>>

\* the call leaves state s; ret is its integer result, data the word it read
Step(s, op, arg, val, ret, data) ==
  /\ global_cycles' = s.global_cycles
  /\ timer' = s.timer
  /\ pic' = s.pic
  /\ tick_calls' = s.tick_calls
  /\ signalled' = s.signalled
  /\ samples' = s.samples
  /\ forced' = IF /\ op \in {"write8", "write16", "write32"}
                  /\ AlignedBase(arg) = TIMER_COUNT
               THEN [count |-> s.timer.count, ticks |-> s.tick_calls,
                     events |-> s.timer.events_generated]
               ELSE IF op = "tick" THEN forced ELSE NoForce
  /\ last' = [op |-> op, arg |-> arg, val |-> val, ret |-> ret, data |-> data,
              lat |-> s.lat]

Api(s, op, arg, val, ret, data) ==
  /\ pc = "api"
  /\ Bounded(s)
  /\ Step(s, op, arg, val, ret, data)
  /\ UNCHANGED <<pc, i>>

InitDefault == Api(iosub_init_default, "init_default", 0, {}, 0, {})

Tick ==
  Api(iosub_tick([Cur EXCEPT !.tick_calls = @ + 1]), "tick", 0, {}, 0, {})

IrqPending == Api(Cur, "irq_pending", 0, {}, iosub_irq_pending(Cur), {})

AckIrq(V) ==
  \E vector \in V :
    LET r == iosub_ack_irq(Cur, vector)
    IN  Api(r.s, "ack_irq", vector, {}, r.ret, {})

Read8(A) == \E addr \in A : Api(Cur, "read8", addr, {}, 0, iosub_read8(Cur, addr))

Read16(A) == \E addr \in A : Api(Cur, "read16", addr, {}, 0, iosub_read16(Cur, addr))

Read32(A) == \E addr \in A : Api(Cur, "read32", addr, {}, 0, iosub_read32(Cur, addr))

Write8(W) ==
  \E w \in W : Api(iosub_write8(Cur, w[1], w[2]), "write8", w[1], w[2], 0, {})

Write16(W) ==
  \E w \in W : Api(iosub_write16(Cur, w[1], w[2]), "write16", w[1], w[2], 0, {})

Write32(W) ==
  \E w \in W : Api(iosub_write32(Cur, w[1], w[2]), "write32", w[1], w[2], 0, {})

NoCall == [op |-> "init_default", arg |-> 0, val |-> {}, ret |-> 0, data |-> {}, lat |-> -1]

InitState ==
  /\ global_cycles = iosub_init_default.global_cycles
  /\ timer = iosub_init_default.timer
  /\ pic = iosub_init_default.pic
  /\ tick_calls = 0
  /\ signalled = NoSignal
  /\ samples = EmptyBag
  /\ forced = NoForce
  /\ last = NoCall
  /\ i = 0

Init == InitState /\ pc = "api"

Next ==
  \/ InitDefault
  \/ Tick
  \/ IrqPending
  \/ AckIrq(IrqVectors)
  \/ Write32(IrqWrites)

Spec == Init /\ [][Next]_vars

BusNext ==
  \/ Tick
  \/ Read8(BusReads8)
  \/ Read16(BusReads16)
  \/ Read32(BusReads32)
  \/ Write8(BusWrites8)
  \/ Write16(BusWrites16)
  \/ Write32(BusWrites32)

BusSpec == Init /\ [][BusNext]_vars

\* ----------------------------------------- pic_get_pending_vector alone
\* the bitmaps pic_get_pending_vector is applied to
SampleWords ==
  {{}, {0}, {5}, {0, 5}, {1, 2, 3}, {31}, {5, 31}, 0..15, 16..31, ALL_ONES}

PendingInit ==
  /\ global_cycles = 0
  /\ timer = timer_reset
  /\ pic \in {[pic_reset EXCEPT !.pending_bits = p, !.mask_bits = m] :
                p \in SampleWords, m \in SampleWords}
  /\ tick_calls = 0
  /\ signalled = NoSignal
  /\ samples = EmptyBag
  /\ forced = NoForce
  /\ last = NoCall
  /\ pc = "api"
  /\ i = 0

PendingSpec == PendingInit /\ [][IrqPending]_vars

\* every kind of call of the contract, on the registers of both devices
PublicWrites32 ==
  ({TIMER_CTRL} \X {{0, 1}})
  \cup ({TIMER_PERIOD} \X {{0}})
  \cup ({PIC_MASK, PIC_PENDING, PIC_PRIORITY, PIC_BASE - 4} \X {ALL_ONES})
  \cup ({PIC_EOI} \X {{0, 2}})

PublicWrites8 == {PIC_MASK + 3, PIC_PENDING + 1, PIC_EOI + 2} \X {{0, 2, 7}}

PublicWrites16 == {PIC_PENDING + 2, PIC_EOI} \X {{0, 2, 15}}

PublicNext ==
  \/ Tick
  \/ IrqPending
  \/ AckIrq({0, 5})
  \/ Read8({PIC_PENDING})
  \/ Read16({PIC_PENDING})
  \/ Read32({PIC_PENDING})
  \/ Write8(PublicWrites8)
  \/ Write16(PublicWrites16)
  \/ Write32(PublicWrites32)

PublicSpec == Init /\ [][PublicNext]_vars

\* the timer alone: its three registers written with small values, and ticks
CountWrites ==
  ({TIMER_CTRL} \X {{}, {0}, {0, 1}})
  \cup ({TIMER_PERIOD} \X {{}, {0}, {1}})
  \cup ({TIMER_COUNT} \X {{}, {0}, {1}, {0, 1}})

CountNext ==
  \/ Tick
  \/ Write32(CountWrites)

CountSpec == Init /\ [][CountNext]_vars

\* ------------------------------------------------------------------ main
MainInit == InitState /\ pc = "main_period"

Main(at, s, op, arg, val, ret, data, to, n) ==
  /\ pc = at
  /\ Step(s, op, arg, val, ret, data)
  /\ pc' = to
  /\ i' = n

MainWritePeriod ==
  Main("main_period", iosub_write32(Cur, TIMER_PERIOD, Word(MAIN_PERIOD)),
       "write32", TIMER_PERIOD, Word(MAIN_PERIOD), 0, {}, "main_ctrl", 0)

MainWriteCtrl ==
  Main("main_ctrl", iosub_write32(Cur, TIMER_CTRL, Word(MAIN_CTRL)),
       "write32", TIMER_CTRL, Word(MAIN_CTRL), 0, {}, "main_loop", 0)

MainTick ==
  /\ i < MAIN_CYCLES
  /\ Main("main_loop", iosub_tick([Cur EXCEPT !.tick_calls = @ + 1]),
          "tick", 0, {}, 0, {}, "main_poll", i)

MainPoll ==
  LET v == iosub_irq_pending(Cur)
  IN  Main("main_poll", Cur, "irq_pending", 0, {}, v, {},
           IF v >= 0 THEN "main_ack" ELSE "main_loop",
           IF v >= 0 THEN i ELSE i + 1)

MainAck ==
  LET r == iosub_ack_irq(Cur, last.ret)
  IN  Main("main_ack", r.s, "ack_irq", last.ret, {}, r.ret, {}, "main_loop", i + 1)

MainSummary ==
  /\ i >= MAIN_CYCLES
  /\ Main("main_loop", Cur, "print_summary", 0, {}, 0, {}, "main_done", i)

MainNext ==
  \/ MainWritePeriod
  \/ MainWriteCtrl
  \/ MainTick
  \/ MainPoll
  \/ MainAck
  \/ MainSummary

MainSpec == MainInit /\ [][MainNext]_vars

\* ------------------------------------------------ the latency collector alone
\* the vectors the collector is fed for
FedVectors == {0, 5}

\* pic_record_latency(vector, latency), as pic_ack calls it
RecordLatency ==
  /\ pc = "api"
  /\ BagCardinality(samples) < MaxFed
  /\ \E vector \in FedVectors : \E latency \in 0 .. MaxLatency :
       Step(pic_record_latency(Cur, vector, latency),
            "record_latency", vector, {}, latency, {})
  /\ UNCHANGED <<pc, i>>

StatsSpec == Init /\ [][RecordLatency]_vars

\* ==================================================================
\* The properties
\* ==================================================================
\* the latency statistics of vector v in a PICDevice p
StatsIn(p, v) ==
  <<Get(p.samples_count, v, 0), Get(p.samples_mean, v, RZero), Get(p.samples_m2, v, RZero)>>

\* C1: from init_default with PERIOD = 10 and CTRL = 0x3, the first fire is on the
\* first iosub_tick call and every later fire exactly 10 tick calls after the
\* previous one (calls 1, 11, 21, ...), so that after n calls events_generated
\* is the number of calls 1, 11, 21, ... up to n, and 100 after the 1000 calls
\* of main.
C1_FiringCadence ==
  /\ timer.enabled = 1 =>
       timer.events_generated =
         (IF tick_calls = 0 THEN 0 ELSE ((tick_calls - 1) \div MAIN_PERIOD) + 1)
  /\ pc = "main_done" => timer.events_generated = 100

\* C2: a second iosub_ack_irq(v) right after an iosub_ack_irq(v) of a vector v
\* that fired leaves sample_count, mean and the sum of squared deviations of v
\* unchanged.
C2_SecondAckRecordsNothing ==
  [][(/\ last.op = "ack_irq"
      /\ last'.op = "ack_irq"
      /\ last'.arg = last.arg
      /\ last.arg \in DOMAIN signalled)
     => StatsIn(pic', last.arg) = StatsIn(pic, last.arg)]_vars

\* C3: iosub_ack_irq(vector) returns 0 and changes no timer, PIC, statistics or
\* clock state for a vector that is negative or not in 0..31, and returns 1 for
\* a vector in 0..31.
C3_AckRejectsOutOfRange ==
  [][last'.op = "ack_irq" =>
       IF last'.arg \in 0 .. (NPICVECTORS - 1)
       THEN last'.ret = 1
       ELSE last'.ret = 0 /\ UNCHANGED <<global_cycles, timer, pic>>]_vars

\* C4: iosub_irq_pending returns -1 exactly when pending_bits & ~mask_bits is
\* zero, otherwise the index of the lowest set bit of pending_bits & ~mask_bits,
\* and changes no state.
C4_LowestUnmaskedPending ==
  [][last'.op = "irq_pending" =>
       LET unmasked == pic.pending_bits \ pic.mask_bits IN
       /\ (last'.ret = -1) <=> (unmasked = {})
       /\ unmasked # {} =>
            /\ last'.ret \in unmasked
            /\ \A b \in unmasked : last'.ret <= b
       /\ UNCHANGED <<global_cycles, timer, pic>>]_vars

\* vectors 0 and 5 pending and unmasked, vector 0 reported
C4_Witness ==
  /\ last.op = "irq_pending"
  /\ {0, 5} \subseteq (pic.pending_bits \ pic.mask_bits)
  /\ last.ret = 0

\* C5: while bit v of MASK is set iosub_irq_pending never returns v, although a
\* firing of the timer still sets the pending bit and the bit stays set (a poll
\* and a MASK write leave pending_bits alone); once MASK has bit v clear, a poll
\* reports the still-pending vector v.
C5_MaskHidesPending ==
  [][/\ last'.op = "irq_pending" =>
          /\ last'.ret \notin pic.mask_bits
          /\ \A v \in pic.pending_bits \ pic.mask_bits : last'.ret = v
          /\ pic' = pic
     /\ (last'.op = "tick" /\ tick_calls' # tick_calls /\ signalled' # signalled) =>
          0 \in pic'.pending_bits
     /\ (last'.op = "write32" /\ last'.arg = PIC_MASK) =>
          pic' = [pic EXCEPT !.mask_bits = last'.val]]_vars

\* vector 0 pending and masked: the poll reports none
C5_Witness ==
  /\ last.op = "irq_pending"
  /\ 0 \in pic.pending_bits
  /\ 0 \in pic.mask_bits
  /\ last.ret = -1

\* C6: a 32-bit write of w to PENDING gives pending_bits' = pending_bits & ~w and
\* changes no mask, statistics, firing-cycle or timer state.
C6_PendingWriteClears ==
  [][(last'.op = "write32" /\ last'.arg = PIC_PENDING) =>
       /\ pic' = [pic EXCEPT !.pending_bits = @ \ last'.val]
       /\ UNCHANGED <<global_cycles, timer>>]_vars

\* vector 0 fired, was never acknowledged, and the write of 1 to PENDING cleared it
C6_Witness ==
  /\ last.op = "write32"
  /\ last.arg = PIC_PENDING
  /\ last.val = {0}
  /\ 0 \in DOMAIN signalled
  /\ samples = EmptyBag
  /\ pic.pending_bits = {}

\* what a read returns after a write of v
RoundTrip(addr, v) ==
  CASE addr = TIMER_CTRL -> v \cap {0, 1}
    [] addr = TIMER_STATUS -> v \cap (0..7)
    [] OTHER -> v

RoundTripRegisters == {TIMER_CTRL, TIMER_PERIOD, TIMER_COUNT, TIMER_STATUS, PIC_MASK}

\* C7: a 32-bit write of v to CTRL, PERIOD, COUNT, STATUS or MASK followed by a
\* 32-bit read of the same register returns v for PERIOD, COUNT and MASK,
\* v & 0xFF for STATUS and v & 0x3 for CTRL, and the write changes no other
\* register.
C7_WriteReadRoundTrip ==
  [][(last'.op = "write32" /\ last'.arg \in RoundTripRegisters) =>
       /\ iosub_read32(Cur', last'.arg) = RoundTrip(last'.arg, last'.val)
       /\ \A r \in Registers \ {last'.arg} :
            iosub_read32(Cur', r) = iosub_read32(Cur, r)]_vars

\* 0xFFFFFFFF written to CTRL reads back as 0x3
C7_Witness ==
  /\ last.op = "write32"
  /\ last.arg = TIMER_CTRL
  /\ last.val = ALL_ONES
  /\ iosub_read32(Cur, TIMER_CTRL) = {0, 1}
  /\ timer.period # {}

WidthOf(op) == IF op \in {"read8", "write8"} THEN 8
               ELSE IF op \in {"read16", "write16"} THEN 16 ELSE 32

\* C8: at an address that decodes to no implemented register a read of any
\* width returns 0 and a write of any width and value leaves the timer, the
\* PIC, the statistics and the clock unchanged.
C8_UnmappedAccess ==
  [][/\ (last'.op \in {"read8", "read16", "read32"}
         /\ ~Decodes(last'.arg, WidthOf(last'.op))) =>
          last'.data = {}
     /\ (last'.op \in {"write8", "write16", "write32"}
         /\ ~Decodes(last'.arg, WidthOf(last'.op))) =>
          UNCHANGED <<global_cycles, timer, pic>>]_vars

\* a byte written to the reserved PRIORITY word of a configured, running timer
C8_Witness ==
  /\ last.op = "write8"
  /\ last.arg = PIC_PRIORITY + 1
  /\ last.val = {0, 7}
  /\ global_cycles > 0
  /\ timer.period # {}
  /\ pic.mask_bits # {}

\* the vector the last call acknowledged: the argument of iosub_ack_irq, the
\* low byte of the value written to EOI
AckedVector(l) == IF l.op = "ack_irq" THEN l.arg ELSE Val(l.val \cap (0..7))

\* C9: a firing during the N-th iosub_tick call since init_default records
\* firing cycle N; an acknowledgment of a vector that fired records the number
\* of tick calls since that firing as latency, 0 when no tick came in between.
C9_FiringCycleAndLatency ==
  /\ \A v \in DOMAIN signalled : last_event_cycle(Cur, v) = signalled[v]
  /\ (last.op = "ack_irq" /\ last.arg \in DOMAIN signalled) => last.lat # -1
  /\ last.lat # -1 =>
       /\ AckedVector(last) \in DOMAIN signalled
       /\ last.lat = tick_calls - signalled[AckedVector(last)]

\* the timer fired in call 1 and vector 0 was acknowledged two ticks later
C9_Witness ==
  /\ last.op = "ack_irq"
  /\ last.arg = 0
  /\ 0 \in DOMAIN signalled
  /\ signalled[0] = 1
  /\ tick_calls = 3
  /\ last.lat = 2

\* C10: acknowledging, by iosub_ack_irq or a write to EOI, a vector in 0..31 with
\* no firing recorded since init_default leaves the statistics unchanged; it can
\* only clear the pending bit of that vector.
C10_AckWithoutFiring ==
  [][(/\ last'.op = "ack_irq" \/ (last'.op = "write32" /\ last'.arg = PIC_EOI)
      /\ AckedVector(last') \in 0 .. (NPICVECTORS - 1)
      /\ AckedVector(last') \notin DOMAIN signalled) =>
       /\ pic' = [pic EXCEPT !.pending_bits = @ \ {AckedVector(last')}]
       /\ UNCHANGED <<global_cycles, timer, samples>>]_vars

\* the timer fired with irq_enable clear, so that no firing of vector 0 is
\* recorded, and vector 0 was acknowledged
C10_Witness ==
  /\ last.op = "ack_irq"
  /\ last.arg = 0
  /\ 0 \notin DOMAIN signalled
  /\ timer.events_generated > 0
  /\ last.lat = -1

\* the latencies recorded for vector v, as <<latency, how often>> pairs
LatenciesOf(v) ==
  {<<e[2], CopiesIn(e, samples)>> : e \in {x \in BagToSet(samples) : x[1] = v}}

RECURSIVE SumOf(_), SumSqDevOf(_, _), CountOf(_)
\* l1 + ... + ln
SumOf(ls) ==
  IF ls = {} THEN 0
  ELSE LET e == CHOOSE x \in ls : TRUE IN e[1] * e[2] + SumOf(ls \ {e})
\* (l1 - mean)^2 + ... + (ln - mean)^2
SumSqDevOf(ls, mean) ==
  IF ls = {} THEN RZero
  ELSE LET e == CHOOSE x \in ls : TRUE
           d == RSub(RInt(e[1]), mean)
       IN  RAdd(RMul(RInt(e[2]), RMul(d, d)), SumSqDevOf(ls \ {e}, mean))
\* n
CountOf(ls) ==
  IF ls = {} THEN 0
  ELSE LET e == CHOOSE x \in ls : TRUE IN e[2] + CountOf(ls \ {e})

\* count, mean and sample variance computed from the whole list at once
DirectStats(v) ==
  LET ls == LatenciesOf(v)
      n == CountOf(ls)
      mean == IF n = 0 THEN RZero ELSE Norm(SumOf(ls), n)
  IN  <<n, mean, IF n > 1 THEN RDivInt(SumSqDevOf(ls, mean), n - 1) ELSE RZero>>

\* C11: after latencies l1..ln were recorded for a vector, iosub_get_irq_stats
\* returns count n, mean (l1+...+ln)/n and variance sum((li - mean)^2)/(n-1)
\* for n > 1 and 0 for n <= 1, as the direct computation gives; the latencies
\* 1, 2, 3, 4, 5 give mean 3 and sample variance 5/2.
C11_StatsMatchDirect ==
  \A v \in FedVectors :
    /\ iosub_get_irq_stats(Cur, v) = DirectStats(v)
    /\ LatenciesOf(v) = {<<l, 1>> : l \in 1..5} =>
         iosub_get_irq_stats(Cur, v) = <<5, <<3, 1>>, <<5, 2>>>>

\* the latencies 1, 2, 3, 4, 5 were recorded for vector 0
C11_Witness ==
  /\ LatenciesOf(0) = {<<l, 1>> : l \in 1..5}
  /\ iosub_get_irq_stats(Cur, 0) = <<5, <<3, 1>>, <<5, 2>>>>

\* C12: a tick with the timer enabled, period > 0 and count = 0 adds exactly 1
\* to events_generated and reloads count with period; with irq_enable set it
\* sets pending bit 0 and records the current cycle as the firing cycle of
\* vector 0, with irq_enable clear it leaves the PIC unchanged. A tick with the
\* timer enabled, period > 0 and count > 0 takes exactly 1 from count and
\* changes nothing else in the timer or the PIC.
C12_TickFiresOrCountsDown ==
  [][(last'.op = "tick" /\ timer.enabled # 0 /\ timer.period # {}) =>
       IF timer.count = {}
       THEN /\ timer'.events_generated = timer.events_generated + 1
            /\ timer'.count = timer.period
            /\ IF timer.irq_enable # 0
               THEN /\ pic'.pending_bits = pic.pending_bits \cup {0}
                    /\ last_event_cycle(Cur', 0) = global_cycles'
                    /\ global_cycles' = global_cycles + 1
               ELSE pic' = pic
       ELSE /\ Val(timer'.count) = Val(timer.count) - 1
            /\ \A f \in (DOMAIN timer) \ {"count"} : timer'[f] = timer[f]
            /\ pic' = pic]_vars

\* the timer fired twice with irq_enable set, counting down in between, and the
\* second firing is the last call
C12_Witness ==
  /\ last.op = "tick"
  /\ timer.irq_enable # 0
  /\ timer.events_generated = 2
  /\ timer.count = timer.period
  /\ 0 \in pic.pending_bits
  /\ last_event_cycle(Cur, 0) = global_cycles

\* C13: with the timer not enabled, or with period = 0 whatever enabled, count
\* and irq_enable are, iosub_tick advances the clock by one and leaves the
\* timer (count, status, events_generated included), pending_bits and every
\* firing cycle unchanged: the timer does not fire.
C13_IdleTickOnlyAdvancesClock ==
  [][(last'.op = "tick" /\ (timer.enabled = 0 \/ timer.period = {})) =>
       /\ global_cycles' = global_cycles + 1
       /\ timer' = timer
       /\ pic' = pic
       /\ UNCHANGED <<signalled, samples>>]_vars

\* a tick of an enabled timer with irq_enable set, period 0 and count 0
C13_Witness ==
  /\ last.op = "tick"
  /\ global_cycles > 0
  /\ timer.enabled # 0
  /\ timer.irq_enable # 0
  /\ timer.period = {}
  /\ timer.count = {}
  /\ timer.events_generated = 0

\* the bits of the PENDING word a byte or half-word write names: the written
\* value placed at its lane
WrittenLane(l) ==
  IF l.op = "write8"
  THEN Shl(And(l.val, BYTE_MASK), ByteShift(l.arg))
  ELSE Shl(And(l.val, HALF_MASK), HalfShift(l.arg))

\* C14: a byte or half-word write to PENDING clears exactly the pending bits
\* set in the written value placed at its lane and leaves every other pending
\* bit unchanged; writing the byte 0 to any lane clears no pending bit.
C14_NarrowPendingWrite ==
  [][(last'.op \in {"write8", "write16"} /\ AlignedBase(last'.arg) = PIC_PENDING) =>
       pic'.pending_bits = pic.pending_bits \ WrittenLane(last')]_vars

\* C15: a firing tick sets bit 0 of STATUS and leaves bits 1..7 of STATUS as
\* they were before the tick: after STATUS was written with 0x80 the next
\* firing yields 0x81.
C15_FiringKeepsStatusBits ==
  [][(/\ last'.op = "tick"
      /\ timer.enabled # 0 /\ timer.period # {} /\ timer.count = {}) =>
       timer'.status = timer.status \cup {0}]_vars

\* the last call wrote, at any width, the word at address reg
WroteTo(l, reg) ==
  l.op \in {"write8", "write16", "write32"} /\ AlignedBase(l.arg) = reg

\* C16: acknowledgment never clears STATUS: iosub_ack_irq, a write to EOI and a
\* write to PENDING leave every field of the timer unchanged, so that once the
\* timer fired, bit 0 of STATUS stays set until a write to the STATUS register
\* (or the reset of iosub_init_default).
C16_AckLeavesTimer ==
  [][/\ (\/ last'.op = "ack_irq"
         \/ WroteTo(last', PIC_EOI)
         \/ WroteTo(last', PIC_PENDING)) => timer' = timer
     /\ (/\ 0 \in timer.status
         /\ ~WroteTo(last', TIMER_STATUS)
         /\ last'.op # "init_default") => 0 \in timer'.status]_vars

\* the timer fired, vector 0 was acknowledged with a latency recorded, and
\* STATUS still shows the firing
C16_Witness ==
  /\ last.op = "ack_irq"
  /\ last.arg = 0
  /\ last.lat # -1
  /\ pic.pending_bits = {}
  /\ timer.events_generated > 0
  /\ timer.status = {0}

\* C17: with the timer enabled and period > 0, after a write of c to COUNT
\* followed by ticks only, the timer does not fire during the first c ticks,
\* counting down from c, and fires on exactly tick c + 1 (the very next tick
\* when c = 0), which reloads count with period.
C17_CountWriteForcesFire ==
  (forced # NoForce /\ timer.enabled # 0 /\ timer.period # {}) =>
    LET c == Val(forced.count)
        k == tick_calls - forced.ticks
    IN  /\ k <= c => /\ timer.events_generated = forced.events
                     /\ Val(timer.count) = c - k
        /\ k = c + 1 => /\ timer.events_generated = forced.events + 1
                        /\ timer.count = timer.period

\* 2 was written to COUNT of a running timer of period 1 and the third tick
\* after the write was its first firing since
C17_Witness ==
  /\ forced # NoForce
  /\ forced.count = {1}
  /\ tick_calls - forced.ticks = 3
  /\ timer.enabled # 0
  /\ timer.period = {0}
  /\ timer.count = {0}
  /\ timer.events_generated = forced.events + 1

\* C18: in every state reached from iosub_init_default through the calls of
\* the contract (ticks, acknowledgments, reads and writes of every width),
\* pending_bits has no bit set but bit 0: no register write sets a pending bit
\* and the timer is the only signaller. iosub_irq_pending returns 0 or none
\* (-1), and latency samples are recorded for vector 0 only.
C18_OnlyVectorZeroPends ==
  /\ pic.pending_bits \subseteq {0}
  /\ last.op = "irq_pending" => last.ret \in {0, -1}
  /\ \A e \in BagToSet(samples) : e[1] = 0
  /\ DOMAIN pic.samples_count \subseteq {0}
  /\ DOMAIN pic.last_event_cycle \subseteq {0}

\* vector 0 was acknowledged with a sample recorded, fired again, and the poll
\* returns it
C18_Witness ==
  /\ last.op = "irq_pending"
  /\ last.ret = 0
  /\ pic.pending_bits = {0}
  /\ samples_count(Cur, 0) > 0

\* C19: in every reachable state the firing cycle recorded for a vector is 0,
\* when it never fired, or lies between 1 and the current global cycle count:
\* a firing is never recorded as cycle 0, and no recorded latency is negative.
C19_FiringCycleInRange ==
  /\ \A v \in DOMAIN pic.last_event_cycle :
       /\ pic.last_event_cycle[v] >= 1
       /\ pic.last_event_cycle[v] <= global_cycles
  /\ \A v \in Vectors :
       last_event_cycle(Cur, v) = 0 <=> v \notin DOMAIN signalled
  /\ \A e \in BagToSet(samples) : e[2] >= 0

\* the timer fired in the first cycle and was acknowledged in that same cycle
C19_Witness ==
  /\ last.op = "ack_irq"
  /\ last.arg = 0
  /\ last.lat = 0
  /\ global_cycles = 1
  /\ last_event_cycle(Cur, 0) = 1

\* C20: when the timer fires again while vector 0 is still pending, the firing
\* cycle of vector 0 is overwritten with the current cycle, the pending bit
\* stays the single bit 0 and no sample is recorded; the next acknowledgment of
\* vector 0 records exactly one sample, measured from the most recent firing.
C20_RefireOverwritesFiringCycle ==
  [][/\ (/\ last'.op = "tick"
         /\ 0 \in pic.pending_bits
         /\ timer.irq_enable # 0
         /\ timer'.events_generated # timer.events_generated) =>
           /\ last_event_cycle(Cur', 0) = global_cycles'
           /\ last_event_cycle(Cur', 0) # last_event_cycle(Cur, 0)
           /\ pic'.pending_bits = {0}
           /\ samples' = samples
     /\ (last'.op = "ack_irq" /\ last'.arg = 0 /\ 0 \in pic.pending_bits) =>
           /\ samples' = samples (+) SetToBag({<<0, tick_calls - signalled[0]>>})
           /\ pic'.pending_bits = {}]_vars

\* the timer fired in calls 1 and 3, and the only acknowledgment, after call 4,
\* recorded the single latency 1
C20_Witness ==
  /\ last.op = "ack_irq"
  /\ last.arg = 0
  /\ timer.events_generated = 2
  /\ tick_calls = 4
  /\ 0 \in DOMAIN signalled
  /\ signalled[0] = 3
  /\ samples = SetToBag({<<0, 1>>})
====
